---- MODULE Spec2Model ----
(***************************************************************************)
(* Model of 0x02-redis_basic/web.py: the decorator cache_and_count, which  *)
(* wraps a fetch function with a Redis-backed cache and a per-url call     *)
(* counter, and the decorated function get_page.                           *)
(*                                                                         *)
(* The Redis server is one keyspace (store); every Redis command (INCR,    *)
(* GET, SETEX) is one atomic step.  Each caller runs wrapper(url) one      *)
(* command at a time, so callers interleave between commands.              *)
(***************************************************************************)
EXTENDS Integers, Sequences, FiniteSets, TLC

(* ---------------------------- bounds ----------------------------------- *)
MaxCalls == 2                 \* calls of the wrapped function in one run
NumCallers == 2               \* concurrent callers (threads or processes)

Callers == 1..NumCallers
Urls == {"x", "y"}
\* response bodies, as sequences of Unicode code points: "", "A", "e-acute"
Texts == {<<>>, <<65>>, <<233>>}
Statuses == {200, 404}

(* ------------------------ program constants ---------------------------- *)
expiration == 10              \* cache_and_count(expiration: int = 10)

\* Python's None is the empty option, a value v the option {v}.
None == {}
Some(v) == {v}
Val(o) == CHOOSE v \in o : TRUE
NoUrl == ""                   \* no call made yet
NoExpiry == -1                \* TTL of a key without expiry (Redis TTL = -1)

(* ----------------------------- state ----------------------------------- *)
VARIABLES
  store,          \* the Redis keyspace: present key -> [val, ttl]
  pc,             \* per caller: position in wrapper
  url,            \* per caller: the argument of the current call
  cached_result,  \* per caller: local of wrapper, what GET returned
  result,         \* per caller: local of wrapper, what func(url) returned
  response,       \* per caller: local of get_page, the HTTP response
                  \* (the locals are None outside a call: they end with it)
  ret,            \* per caller: value the call returned
  exc,            \* per caller: exception the call ended with
  nfetch,         \* per caller: invocations of func in the current call
  nwrite,         \* per caller: write commands (INCR, SETEX) the current
                  \*             call has had executed
  prev,           \* observed caller: outcome of the caller's previous call
  count0,         \* observed caller: GET count:<url> as of the call's start
  entry0,         \* observed caller: GET cache:<url> as of the call's start
  age,            \* per url: seconds since the last SETEX of cache:<url>,
                  \*          capped at expiration (no live write)
  nincrfail,      \* per url: calls whose INCR raised
  ncalls,         \* per url: calls of the wrapper made so far
  nincr,          \* per url: calls that have executed their INCR
  fetchCount      \* per url: invocations of func so far

vars == <<store, pc, url, cached_result, result, response, ret, exc,
          nfetch, nwrite, prev, count0, entry0, age, nincrfail, ncalls, nincr,
          fetchCount>>

(* ------------------------------ keys ----------------------------------- *)
\* Variant of cache_key: the url is left out of the key.
cache_key_Shared(u) == "cache:"

cache_key(u) == "cache:" \o u
count_key(u) == "count:" \o u
Keys == {cache_key(u) : u \in Urls} \cup {count_key(u) : u \in Urls}

(* --------------------------- conversions ------------------------------- *)
\* UTF-8 encoding of a str (redis-py encodes str values before sending).
RECURSIVE Utf8Encode(_)
Utf8Encode(s) ==
  IF s = <<>> THEN <<>>
  ELSE LET c == Head(s)
       IN  (IF c < 128 THEN <<c>>
            ELSE <<192 + (c \div 64), 128 + (c % 64)>>) \o Utf8Encode(Tail(s))

\* bytes.decode('utf-8') for one- and two-byte sequences.
RECURSIVE Utf8Decode(_)
Utf8Decode(b) ==
  IF b = <<>> THEN <<>>
  ELSE IF b[1] < 128 THEN <<b[1]>> \o Utf8Decode(Tail(b))
  ELSE <<(b[1] - 192) * 64 + (b[2] - 128)>> \o Utf8Decode(Tail(Tail(b)))

\* Variant of Truthy: the test `cached_result is not None`.
Truthy_IsNotNone(o) == o # None

\* Python truth value of `cached_result`: None and b"" are false.
Truthy(o) == o # None /\ Len(Val(o)) > 0

(* ------------------------- Redis primitives ---------------------------- *)
\* Variant of RedisIncr: the first access creates the counter at 0.
RedisIncr_CreateAtZero(s, k) ==
  IF k \notin DOMAIN s THEN s @@ (k :> [val |-> 0, ttl |-> NoExpiry])
  ELSE [s EXCEPT ![k].val = @ + 1]

\* Variant of RedisIncr: the counter is created with the time-to-live of
\* the cache entries (INCR followed by EXPIRE on creation).
RedisIncr_WithExpiry(s, k) ==
  IF k \notin DOMAIN s THEN s @@ (k :> [val |-> 1, ttl |-> expiration])
  ELSE [s EXCEPT ![k].val = @ + 1]

\* INCR key: an absent key counts as 0; the TTL of the key is kept.
RedisIncr(s, k) ==
  IF k \notin DOMAIN s THEN s @@ (k :> [val |-> 1, ttl |-> NoExpiry])
  ELSE [s EXCEPT ![k].val = @ + 1]

\* GET key: the stored bytes, or None.
RedisGet(s, k) == IF k \notin DOMAIN s THEN None ELSE Some(s[k].val)

\* Variant of RedisSetex: a plain SET, the key never expires.
RedisSetex_NoExpiry(s, k, seconds, value) ==
  [j \in DOMAIN s \cup {k} |->
     IF j = k THEN [val |-> Utf8Encode(value), ttl |-> NoExpiry] ELSE s[j]]

\* Variant of RedisSetex: SET with NX, an existing key is left alone.
RedisSetex_IfAbsent(s, k, seconds, value) ==
  IF k \in DOMAIN s THEN s
  ELSE s @@ (k :> [val |-> Utf8Encode(value), ttl |-> seconds])

\* SETEX key seconds value.
RedisSetex(s, k, seconds, value) ==
  [j \in DOMAIN s \cup {k} |->
     IF j = k THEN [val |-> Utf8Encode(value), ttl |-> seconds] ELSE s[j]]

\* Variant of Expire: the TTL runs down but the key is never removed.
Expire_KeepsKey(s) ==
  [k \in DOMAIN s |->
     IF s[k].ttl = NoExpiry \/ s[k].ttl = 1 THEN s[k]
     ELSE [s[k] EXCEPT !.ttl = @ - 1]]

\* One second passes on the server: keys with a TTL age, and expire at 0.
Expire(s) ==
  [k \in {j \in DOMAIN s : s[j].ttl # 1} |->
     IF s[k].ttl = NoExpiry THEN s[k] ELSE [s[k] EXCEPT !.ttl = @ - 1]]

\* The two records of a url, as options.
CallCounter(u) == IF count_key(u) \in DOMAIN store
                  THEN store[count_key(u)].val ELSE 0
CacheEntry(u) == IF cache_key(u) \in DOMAIN store
                 THEN Some(store[cache_key(u)]) ELSE None

(* ------------------------------ Init ----------------------------------- *)
NoPrev == [url |-> NoUrl, kind |-> "none", val |-> None]

Init ==
  /\ store = [k \in {} |-> None]
  /\ pc = [p \in Callers |-> "idle"]
  /\ url = [p \in Callers |-> NoUrl]
  /\ cached_result = [p \in Callers |-> None]
  /\ result = [p \in Callers |-> None]
  /\ response = [p \in Callers |-> None]
  /\ ret = [p \in Callers |-> None]
  /\ exc = [p \in Callers |-> None]
  /\ nfetch = [p \in Callers |-> 0]
  /\ nwrite = [p \in Callers |-> 0]
  /\ prev = [p \in Callers |-> NoPrev]
  /\ count0 = [p \in Callers |-> None]
  /\ entry0 = [p \in Callers |-> None]
  /\ age = [u \in Urls |-> expiration]
  /\ nincrfail = [u \in Urls |-> 0]
  /\ ncalls = [u \in Urls |-> 0]
  /\ nincr = [u \in Urls |-> 0]
  /\ fetchCount = [u \in Urls |-> 0]

(* ------------------------- get_page (func) ----------------------------- *)
\* What requests.get(url) can hand back: a response of any status.
Responses == [status : Statuses, text : Texts]

\* get_page returns response.text, whatever the status of the response.
get_page(r) == r.text

(* ------------------------- outcome of a call --------------------------- *)
ConnectionError(line) == [type |-> "redis.ConnectionError", line |-> line]
RequestException == [type |-> "requests.RequestException", line |-> 58]

Outcome(p) ==
  IF pc[p] = "returned" THEN (IF nfetch[p] = 0 THEN "hit" ELSE "miss")
  ELSE IF exc[p] = Some(RequestException) THEN "FetchFailure"
  ELSE "StoreUnavailable"

TotalCalls == ncalls["x"] + ncalls["y"]

(* ----------------------------- actions --------------------------------- *)
\* The caller whose calls are compared with the store as it was before
\* them (prev, count0, entry0): caller 1, the only caller of SpecSeq.
Observed(p) == p = 1

\* A caller invokes wrapper(u): lines 21-26.  The outcome of the observed
\* caller's previous call, if any, is remembered in prev.
Call(p, u) ==
  /\ pc[p] \in {"idle", "returned", "raised"}
  /\ TotalCalls < MaxCalls
  /\ prev' = [prev EXCEPT ![p] =
                IF pc[p] = "idle" \/ \lnot Observed(p) THEN NoPrev
                ELSE [url |-> url[p], kind |-> Outcome(p), val |-> ret[p]]]
  /\ url' = [url EXCEPT ![p] = u]
  /\ pc' = [pc EXCEPT ![p] = "incr"]
  /\ cached_result' = [cached_result EXCEPT ![p] = None]
  /\ result' = [result EXCEPT ![p] = None]
  /\ response' = [response EXCEPT ![p] = None]
  /\ ret' = [ret EXCEPT ![p] = None]
  /\ exc' = [exc EXCEPT ![p] = None]
  /\ nfetch' = [nfetch EXCEPT ![p] = 0]
  /\ nwrite' = [nwrite EXCEPT ![p] = 0]
  /\ count0' = [count0 EXCEPT ![p] =
                  IF Observed(p) THEN RedisGet(store, count_key(u)) ELSE None]
  /\ entry0' = [entry0 EXCEPT ![p] =
                  IF Observed(p) THEN RedisGet(store, cache_key(u)) ELSE None]
  /\ ncalls' = [ncalls EXCEPT ![u] = @ + 1]
  /\ UNCHANGED <<store, age, nincrfail, nincr, fetchCount>>

\* Variant of Incr: the observed caller writes the counter back from the
\* value read when its call started (GET then SET instead of INCR).
Incr_ReadThenWrite(p) ==
  /\ pc[p] = "incr"
  /\ store' = IF Observed(p)
              THEN [k \in DOMAIN store \cup {count_key(url[p])} |->
                      IF k = count_key(url[p])
                      THEN [val |-> (IF count0[p] = None THEN 0
                                     ELSE Val(count0[p])) + 1,
                            ttl |-> NoExpiry]
                      ELSE store[k]]
              ELSE RedisIncr(store, count_key(url[p]))
  /\ nincr' = [nincr EXCEPT ![url[p]] = @ + 1]
  /\ nwrite' = [nwrite EXCEPT ![p] = @ + 1]
  /\ pc' = [pc EXCEPT ![p] = "get"]
  /\ UNCHANGED <<url, cached_result, result, response, ret, exc, nfetch,
                 prev, count0, entry0, age, nincrfail, ncalls, fetchCount>>

\* line 29: redis_client.incr(count_key)
Incr(p) ==
  /\ pc[p] = "incr"
  /\ store' = RedisIncr(store, count_key(url[p]))
  /\ nincr' = [nincr EXCEPT ![url[p]] = @ + 1]
  /\ nwrite' = [nwrite EXCEPT ![p] = @ + 1]
  /\ pc' = [pc EXCEPT ![p] = "get"]
  /\ UNCHANGED <<url, cached_result, result, response, ret, exc, nfetch,
                 prev, count0, entry0, age, nincrfail, ncalls, fetchCount>>

\* Variant of Get: a hit also renews the time-to-live of the entry (a
\* second write command of the call).
Get_RefreshOnHit(p) ==
  /\ pc[p] = "get"
  /\ LET v == RedisGet(store, cache_key(url[p]))
     IN  IF Truthy(v)
         THEN /\ ret' = [ret EXCEPT ![p] = Some(Utf8Decode(Val(v)))]
              /\ pc' = [pc EXCEPT ![p] = "returned"]
              /\ cached_result' = cached_result
              /\ store' = [store EXCEPT ![cache_key(url[p])].ttl = expiration]
              /\ nwrite' = [nwrite EXCEPT ![p] = @ + 1]
         ELSE /\ ret' = ret
              /\ pc' = [pc EXCEPT ![p] = "fetch"]
              /\ cached_result' = [cached_result EXCEPT ![p] = v]
              /\ UNCHANGED <<store, nwrite>>
  /\ UNCHANGED <<url, result, response, exc, nfetch, prev, count0,
                 entry0, age, nincrfail, ncalls, nincr, fetchCount>>

\* lines 32-34: cached_result = redis_client.get(cache_key); on a truthy
\* value the call returns its decoding (and its locals are gone).
Get(p) ==
  /\ pc[p] = "get"
  /\ LET v == RedisGet(store, cache_key(url[p]))
     IN  IF Truthy(v)
         THEN /\ ret' = [ret EXCEPT ![p] = Some(Utf8Decode(Val(v)))]
              /\ pc' = [pc EXCEPT ![p] = "returned"]
              /\ cached_result' = cached_result
         ELSE /\ ret' = ret
              /\ pc' = [pc EXCEPT ![p] = "fetch"]
              /\ cached_result' = [cached_result EXCEPT ![p] = v]
  /\ UNCHANGED <<nwrite, store, url, result, response, exc, nfetch, prev, count0,
                 entry0, age, nincrfail, ncalls, nincr, fetchCount>>

\* line 37: result = func(url), func being get_page (lines 58-59); the
\* request is answered with some response.
Fetch(p) ==
  /\ pc[p] = "fetch"
  /\ \E r \in Responses :
       /\ response' = [response EXCEPT ![p] = Some(r)]
       /\ result' = [result EXCEPT ![p] = Some(get_page(r))]
  /\ nfetch' = [nfetch EXCEPT ![p] = @ + 1]
  /\ fetchCount' = [fetchCount EXCEPT ![url[p]] = @ + 1]
  /\ pc' = [pc EXCEPT ![p] = "setex"]
  /\ UNCHANGED <<nwrite, store, url, cached_result, ret, exc, prev, count0, entry0,
                 age, nincrfail, ncalls, nincr>>

\* Variant of FetchRaise: the failure is cached as an error page.
FetchRaise_CachesError(p) ==
  /\ pc[p] = "fetch"
  /\ nfetch' = [nfetch EXCEPT ![p] = @ + 1]
  /\ fetchCount' = [fetchCount EXCEPT ![url[p]] = @ + 1]
  /\ exc' = [exc EXCEPT ![p] = Some(RequestException)]
  /\ nwrite' = [nwrite EXCEPT ![p] = @ + 1]
  /\ pc' = [pc EXCEPT ![p] = "raised"]
  /\ cached_result' = [cached_result EXCEPT ![p] = None]
  /\ store' = RedisSetex(store, cache_key(url[p]), expiration, <<65>>)
  /\ age' = [age EXCEPT ![url[p]] = 0]
  /\ UNCHANGED <<url, result, response, ret, prev,
                 count0, entry0, nincrfail, ncalls, nincr>>

\* Variant of FetchRaise: the increment of line 29 is undone on failure.
FetchRaise_RollsBack(p) ==
  /\ pc[p] = "fetch"
  /\ nfetch' = [nfetch EXCEPT ![p] = @ + 1]
  /\ fetchCount' = [fetchCount EXCEPT ![url[p]] = @ + 1]
  /\ exc' = [exc EXCEPT ![p] = Some(RequestException)]
  /\ pc' = [pc EXCEPT ![p] = "raised"]
  /\ cached_result' = [cached_result EXCEPT ![p] = None]
  /\ store' = [store EXCEPT ![count_key(url[p])].val = @ - 1]
  /\ UNCHANGED <<nwrite, url, result, response, ret, prev,
                 count0, entry0, age, nincrfail, ncalls, nincr>>

\* line 37, func raising: requests.get raises (connection error, timeout);
\* neither get_page nor wrapper catches it.
FetchRaise(p) ==
  /\ pc[p] = "fetch"
  /\ nfetch' = [nfetch EXCEPT ![p] = @ + 1]
  /\ fetchCount' = [fetchCount EXCEPT ![url[p]] = @ + 1]
  /\ exc' = [exc EXCEPT ![p] = Some(RequestException)]
  /\ pc' = [pc EXCEPT ![p] = "raised"]
  /\ cached_result' = [cached_result EXCEPT ![p] = None]
  /\ UNCHANGED <<nwrite, store, url, result, response, ret, prev,
                 count0, entry0, age, nincrfail, ncalls, nincr>>

\* lines 40-42: redis_client.setex(cache_key, expiration, result); return
Setex(p) ==
  /\ pc[p] = "setex"
  /\ store' = RedisSetex(store, cache_key(url[p]), expiration, Val(result[p]))
  /\ ret' = [ret EXCEPT ![p] = result[p]]
  /\ nwrite' = [nwrite EXCEPT ![p] = @ + 1]
  /\ pc' = [pc EXCEPT ![p] = "returned"]
  /\ age' = [age EXCEPT ![url[p]] = 0]
  /\ cached_result' = [cached_result EXCEPT ![p] = None]
  /\ result' = [result EXCEPT ![p] = None]
  /\ response' = [response EXCEPT ![p] = None]
  /\ UNCHANGED <<url, exc, nfetch, prev, count0, entry0, nincrfail, ncalls,
                 nincr, fetchCount>>

\* The store cannot be reached: the command at line 29, 32 or 40 raises and
\* wrapper, having no try block, ends with that error.
StoreLine(at) == IF at = "incr" THEN 29 ELSE IF at = "get" THEN 32 ELSE 40

\* Variant of StoreFail: the wrapper falls back to working without the
\* store (skips the cache, hands back what func returned).
StoreFail_BypassStore(p) ==
  /\ pc[p] \in {"incr", "get", "setex"}
  /\ exc' = exc
  /\ pc' = [pc EXCEPT ![p] = IF pc[p] = "setex" THEN "returned" ELSE "fetch"]
  /\ ret' = [ret EXCEPT ![p] = IF pc[p] = "setex" THEN result[p] ELSE @]
  /\ nincrfail' = [nincrfail EXCEPT ![url[p]] =
                     IF pc[p] = "incr" THEN @ + 1 ELSE @]
  /\ UNCHANGED <<nwrite, store, url, cached_result, result, response, nfetch,
                 prev, count0, entry0, age, ncalls, nincr, fetchCount>>

StoreFail(p) ==
  /\ pc[p] \in {"incr", "get", "setex"}
  /\ exc' = [exc EXCEPT ![p] = Some(ConnectionError(StoreLine(pc[p])))]
  /\ pc' = [pc EXCEPT ![p] = "raised"]
  /\ nincrfail' = [nincrfail EXCEPT ![url[p]] =
                     IF pc[p] = "incr" THEN @ + 1 ELSE @]
  /\ cached_result' = [cached_result EXCEPT ![p] = None]
  /\ result' = [result EXCEPT ![p] = None]
  /\ response' = [response EXCEPT ![p] = None]
  /\ UNCHANGED <<nwrite, store, url, ret, nfetch, prev, count0, entry0, age, ncalls,
                 nincr, fetchCount>>

\* One second passes.
Tick ==
  /\ \E k \in DOMAIN store : store[k].ttl # NoExpiry
  /\ store' = Expire(store)
  /\ age' = [u \in Urls |-> IF age[u] < expiration THEN age[u] + 1 ELSE age[u]]
  /\ UNCHANGED <<nwrite, pc, url, cached_result, result, response, ret, exc, nfetch,
                 prev, count0, entry0, nincrfail, ncalls, nincr, fetchCount>>

Step(p) ==
  \/ \E u \in Urls : Call(p, u)
  \/ Incr(p)
  \/ Get(p)
  \/ Fetch(p)
  \/ FetchRaise(p)
  \/ Setex(p)
  \/ StoreFail(p)

Next == (\E p \in Callers : Step(p)) \/ Tick

Spec == Init /\ [][Next]_vars

\* One caller only: the calls of a run follow one another.
NextSeq == Step(1) \/ Tick

SpecSeq == Init /\ [][NextSeq]_vars

(* ======================= properties of the wrapper ===================== *)
Count0(p) == IF count0[p] = None THEN 0 ELSE Val(count0[p])

\* C1: under SpecSeq, a call of wrapper(url) that has returned, as a hit or
\* as a miss, has raised the value at count:<url> by exactly 1 over its
\* value when the call started, an absent counter counting as 0 (so the
\* first call on a fresh url leaves the counter at 1).
C1_CallRaisesCounterByOne ==
  \A p \in Callers :
    pc[p] = "returned" =>
      /\ count_key(url[p]) \in DOMAIN store
      /\ CallCounter(url[p]) = Count0(p) + 1
      /\ count0[p] = None => store[count_key(url[p])].val = 1

\* A hit that found the counter at 1 and left it at 2.
C1_Witness ==
  \E p \in Callers :
    /\ pc[p] = "returned" /\ nfetch[p] = 0
    /\ count0[p] = Some(1) /\ CallCounter(url[p]) = 2

\* C2: under SpecSeq, a call for a url that had no cache entry when it
\* started is a miss: GET finds nothing, func is invoked exactly once and
\* counted for that url, SETEX stores the encoding of func's result under
\* cache:<url> with a time-to-live of expiration seconds, and the call
\* returns func's result.
C2_State(p) ==
  (url[p] # NoUrl /\ entry0[p] = None) =>
    /\ pc[p] \in {"fetch", "setex"} => cached_result[p] = None
    /\ pc[p] = "fetch" => nfetch[p] = 0
    /\ pc[p] = "setex" => result[p] = Some(Val(response[p]).text)
    /\ pc[p] \in {"setex", "returned"} => nfetch[p] = 1

C2_Step(p) ==
  /\ (pc[p] = "fetch" /\ pc'[p] # "fetch" /\ entry0[p] = None) =>
       fetchCount' = [fetchCount EXCEPT ![url[p]] = @ + 1]
  /\ (pc[p] = "setex" /\ pc'[p] = "returned" /\ entry0[p] = None) =>
       /\ cache_key(url[p]) \in DOMAIN store'
       /\ Utf8Decode(store'[cache_key(url[p])].val) = Val(result[p])
       /\ store'[cache_key(url[p])].ttl = expiration
       /\ ret'[p] = result[p]

C2_FirstCallIsMiss ==
  [][\A p \in Callers : C2_Step(p) /\ C2_State(p)']_vars

\* The very first call, for a body outside ASCII, returned after a fetch.
C2_Witness ==
  \E p \in Callers :
    /\ pc[p] = "returned" /\ prev[p] = NoPrev /\ entry0[p] = None
    /\ nfetch[p] = 1 /\ ret[p] = Some(<<233>>)
    /\ cache_key(url[p]) \in DOMAIN store
    /\ store[cache_key(url[p])] = [val |-> <<195, 169>>, ttl |-> expiration]

\* The caller's previous call was for the same url and returned.
SameUrlAfter(p, kinds) == prev[p].kind \in kinds /\ prev[p].url = url[p]

\* C3 (as claimed): under SpecSeq, whatever value the first call fetched
\* and stored, a second call for the same url made while the expiration
\* window of that entry has not elapsed is a hit: its GET never comes back
\* with a value the call then ignores, it never reaches the call of func,
\* and it returns the value returned by the first call.
C3_SecondCallIsHit ==
  \A p \in Callers :
    SameUrlAfter(p, {"miss"}) =>
      /\ age[url[p]] < expiration => pc[p] \notin {"fetch", "setex"}
      /\ cached_result[p] = None
      /\ (pc[p] = "returned" /\ nfetch[p] = 0) => ret[p] = prev[p].val

\* C4: under SpecSeq, an entry is gone once expiration seconds have passed
\* since its SETEX; a call for the same url made after that is a miss: it
\* invokes func again, returns the new result (whatever the earlier call
\* returned) and overwrites cache:<url> with the new result and a
\* time-to-live of expiration seconds.
C4_State(p) ==
  /\ \A u \in Urls : age[u] >= expiration => cache_key(u) \notin DOMAIN store
  /\ (SameUrlAfter(p, {"miss", "hit"}) /\ entry0[p] = None) =>
       /\ pc[p] = "setex" => result[p] = Some(Val(response[p]).text)
       /\ pc[p] \in {"setex", "returned"} => nfetch[p] = 1

C4_Step(p) ==
  (/\ SameUrlAfter(p, {"miss", "hit"}) /\ entry0[p] = None
   /\ pc[p] = "setex" /\ pc'[p] = "returned") =>
     /\ cache_key(url[p]) \in DOMAIN store'
     /\ store'[cache_key(url[p])] =
          [val |-> Utf8Encode(Val(result[p])), ttl |-> expiration]
     /\ age'[url[p]] = 0
     /\ ret'[p] = result[p]

C4_MissAfterExpiry ==
  [][\A p \in Callers : C4_Step(p) /\ C4_State(p)']_vars

\* The first call stored "A"; after expiry the next one fetched and
\* returned another body, which is now the cached one.
C4_Witness ==
  \E p \in Callers :
    /\ pc[p] = "returned" /\ SameUrlAfter(p, {"miss"}) /\ entry0[p] = None
    /\ prev[p].val = Some(<<65>>) /\ ret[p] = Some(<<233>>) /\ nfetch[p] = 1
    /\ CacheEntry(url[p]) = Some([val |-> <<195, 169>>, ttl |-> expiration])

\* C5: under SpecSeq, when func raises, the call ends with that error and
\* returns nothing, the raising step writes nothing to the store, cache:<url>
\* holds what it held when the call started (or has expired meanwhile), and
\* the caller's next call for the same url is never a hit: if it gets past
\* GET it invokes func again.
FetchFailed(p) == pc[p] = "raised" /\ exc[p] = Some(RequestException)

C5_State(p) ==
  /\ FetchFailed(p) =>
       /\ ret[p] = None /\ nfetch[p] = 1
       /\ RedisGet(store, cache_key(url[p])) \in {None, entry0[p]}
       /\ \lnot Truthy(RedisGet(store, cache_key(url[p])))
  /\ SameUrlAfter(p, {"FetchFailure"}) =>
       /\ pc[p] = "returned" => nfetch[p] = 1
       /\ pc[p] \in {"fetch", "setex"} => \lnot Truthy(cached_result[p])

C5_Step(p) ==
  (pc[p] = "fetch" /\ pc'[p] = "raised") =>
     store' = store /\ exc'[p] = Some(RequestException)

C5_FetchRaiseWritesNothing ==
  [][\A p \in Callers : C5_Step(p) /\ C5_State(p)']_vars

\* After a call in which func raised, the next call for the url fetched.
C5_Witness ==
  \E p \in Callers :
    /\ SameUrlAfter(p, {"FetchFailure"})
    /\ pc[p] = "returned" /\ nfetch[p] = 1
    /\ cache_key(url[p]) \in DOMAIN store

\* C6: under SpecSeq, after a call in which func raised, count:<url> is one
\* above its value when the call started: the increment of line 29 stays.
C6_CounterKeptOnFetchFailure ==
  \A p \in Callers :
    FetchFailed(p) =>
      /\ count_key(url[p]) \in DOMAIN store
      /\ CallCounter(url[p]) = Count0(p) + 1

\* Two calls for a url, func raising in both: the counter stands at 2.
C6_Witness ==
  \E p \in Callers :
    /\ FetchFailed(p) /\ SameUrlAfter(p, {"FetchFailure"})
    /\ count0[p] = Some(1) /\ CallCounter(url[p]) = 2
    /\ cache_key(url[p]) \notin DOMAIN store

AllFinished == \A p \in Callers : pc[p] \in {"idle", "returned", "raised"}
AtIncr(u) == {p \in Callers : pc[p] = "incr" /\ url[p] = u}

\* C7 (as claimed): under Spec, with concurrent callers, count:<url> equals
\* the number of calls for url that have executed their INCR, and once all
\* calls have finished it equals the number of calls made for url.
C7_CounterEqualsCalls ==
  \A u \in Urls :
    /\ CallCounter(u) = nincr[u]
    /\ AllFinished => CallCounter(u) = ncalls[u]

\* C7 (amended): under Spec, with concurrent callers, count:<url> equals the
\* number of calls for url that have executed their INCR; every call made
\* for url has executed it, is about to, or had it raise; so once all calls
\* have finished the counter equals the calls made for url less those whose
\* INCR raised.
C7_CounterEqualsIncrements ==
  \A u \in Urls :
    /\ CallCounter(u) = nincr[u]
    /\ (count_key(u) \in DOMAIN store) <=> (nincr[u] > 0)
    /\ ncalls[u] = nincr[u] + Cardinality(AtIncr(u)) + nincrfail[u]
    /\ AllFinished => CallCounter(u) = ncalls[u] - nincrfail[u]

\* Two callers raced on one url, both missed and fetched, and the counter
\* shows both calls.
C7_Witness ==
  \E u \in Urls :
    /\ AllFinished /\ ncalls[u] = 2 /\ CallCounter(u) = 2
    /\ \A p \in {1, 2} : url[p] = u /\ nfetch[p] = 1 /\ nwrite[p] = 2

\* C8: under Spec, every SETEX of a call replaces whatever cache:<url> holds
\* by the encoding of that call's own result with a time-to-live of
\* expiration seconds, also when another caller has written the entry since
\* this call's GET: of two racing misses the later SETEX decides the entry.
C8_LastWriteWins ==
  [][\A p \in Callers :
       (pc[p] = "setex" /\ pc'[p] = "returned") =>
          CacheEntry(url[p])' =
            Some([val |-> Utf8Encode(Val(result[p])), ttl |-> expiration])]_vars

\* Both callers read cache:x as absent, both fetched (different bodies) and
\* both wrote; caller 2 wrote last and its body is the cached one.
C8_Witness ==
  /\ \A p \in {1, 2} :
       /\ url[p] = "x" /\ prev[p] = NoPrev /\ pc[p] = "returned"
       /\ nfetch[p] = 1 /\ nwrite[p] = 2
  /\ fetchCount["x"] = 2
  /\ ret[1] = Some(<<65>>) /\ ret[2] = Some(<<233>>)
  /\ CacheEntry("x") = Some([val |-> <<195, 169>>, ttl |-> expiration])

\* C9 (as claimed): under SpecSeq, when the HTTP request of get_page is
\* answered with a status outside 200..299, the call ends with an error,
\* returns nothing and writes no cache entry.
C9_Non2xxRaises ==
  \A p \in Callers :
    (response[p] # None /\ Val(response[p]).status \notin 200..299) =>
      /\ pc[p] = "raised" /\ ret[p] = None
      /\ RedisGet(store, cache_key(url[p])) \in {None, entry0[p]}

\* C10: under SpecSeq, a call in which a store command raises ends with
\* that error and returns nothing, the failing step changing nothing in the
\* store; when INCR or GET raised, func was not invoked and cache:<url> was
\* not written (and a failed INCR left the counter alone); when SETEX raised,
\* func had returned a result, which is neither returned nor cached.
StoreFailedAt(p, lines) ==
  pc[p] = "raised" /\ exc[p] \in {Some(ConnectionError(l)) : l \in lines}

C10_State(p) ==
  /\ pc[p] = "raised" => ret[p] = None /\ exc[p] # None
  /\ pc[p] = "returned" => exc[p] = None
  /\ StoreFailedAt(p, {29, 32, 40}) =>
       RedisGet(store, cache_key(url[p])) \in {None, entry0[p]}
  /\ StoreFailedAt(p, {29, 32}) => nfetch[p] = 0
  /\ StoreFailedAt(p, {29}) => CallCounter(url[p]) = Count0(p)
  /\ StoreFailedAt(p, {40}) => nfetch[p] = 1

\* A step out of a store command either is the command taking effect or
\* ends the call with the store's error; there is no third way on.
C10_Raised(p) ==
  /\ pc'[p] = "raised" /\ store' = store
  /\ exc'[p] = Some(ConnectionError(StoreLine(pc[p])))

C10_Step(p) ==
  /\ (pc[p] = "incr" /\ pc'[p] # "incr") =>
       \/ pc'[p] = "get" /\ CallCounter(url[p])' = CallCounter(url[p]) + 1
       \/ C10_Raised(p)
  /\ (pc[p] = "get" /\ pc'[p] # "get") =>
       \/ pc'[p] = "returned" /\ Truthy(RedisGet(store, cache_key(url[p])))
       \/ pc'[p] = "fetch" /\ \lnot Truthy(RedisGet(store, cache_key(url[p])))
       \/ C10_Raised(p)
  /\ (pc[p] = "setex" /\ pc'[p] # "setex") =>
       \/ /\ pc'[p] = "returned" /\ ret'[p] = result[p]
          /\ CacheEntry(url[p])' # None /\ age'[url[p]] = 0
       \/ C10_Raised(p)

C10_StoreFailureEndsCall ==
  [][\A p \in Callers : C10_Step(p) /\ C10_State(p)']_vars

\* SETEX raised after func had returned: nothing returned, nothing cached.
C10_Witness ==
  \E p \in Callers :
    /\ StoreFailedAt(p, {40}) /\ nfetch[p] = 1 /\ ret[p] = None
    /\ cache_key(url[p]) \notin DOMAIN store

\* The keys at which two keyspaces differ.
Changed(s, t) ==
  {k \in DOMAIN s \cup DOMAIN t :
     k \notin DOMAIN s \/ k \notin DOMAIN t \/ s[k] # t[k]}

\* C11: under Spec, a call invokes func at most once and has at most two
\* write commands executed, first the INCR and then at most one SETEX; a
\* call that returned as a hit had exactly one (the INCR) and no invocation
\* of func, one that returned as a miss exactly two and one invocation.  No
\* step of a call changes the store without being one of these writes: the
\* INCR changes count:<url> only, the SETEX cache:<url> only.
C11_State(p) ==
  /\ nfetch[p] \in {0, 1} /\ nwrite[p] \in {0, 1, 2}
  /\ pc[p] \in {"get", "fetch", "setex"} => nwrite[p] = 1
  /\ pc[p] \in {"get", "fetch"} => nfetch[p] = 0
  /\ (pc[p] = "returned" /\ nfetch[p] = 0) => nwrite[p] = 1
  /\ (pc[p] = "returned" /\ nfetch[p] = 1) => nwrite[p] = 2

C11_Step(p) ==
  pc'[p] # pc[p] =>
    /\ store' # store => nwrite'[p] = nwrite[p] + 1
    /\ nwrite'[p] = nwrite[p] + 1 =>
         \/ pc[p] = "incr" /\ Changed(store, store') = {count_key(url[p])}
         \/ pc[p] = "setex" /\ Changed(store, store') \subseteq {cache_key(url[p])}
    /\ nfetch'[p] # nfetch[p] =>
         pc[p] = "fetch" \/ (pc'[p] = "incr" /\ nfetch'[p] = 0)

C11_AtMostOneFetchTwoWrites ==
  [][\A p \in Callers : C11_Step(p) /\ C11_State(p)']_vars

\* One caller has returned from a miss (two writes, one fetch), the other
\* from a hit (one write, no fetch).
C11_Witness ==
  \E p, q \in Callers :
    /\ pc[p] = "returned" /\ nfetch[p] = 1 /\ nwrite[p] = 2
    /\ pc[q] = "returned" /\ nfetch[q] = 0 /\ nwrite[q] = 1
    /\ url[p] = url[q]

\* C12: under Spec, count:<url> never expires and never decreases: a step
\* never lowers the counter of a url, a counter that exists stays and has
\* no time-to-live, and a step in which time passes or in which cache:<url>
\* goes away leaves every counter as it was.
TimePasses == \A p \in Callers : pc'[p] = pc[p]
EntryGoes == \E u \in Urls :
               cache_key(u) \in DOMAIN store /\ cache_key(u) \notin DOMAIN store'

C12_CounterNeverExpires ==
  [][\A u \in Urls :
       /\ CallCounter(u)' >= CallCounter(u)
       /\ count_key(u) \in DOMAIN store =>
            count_key(u) \in DOMAIN store'
       /\ count_key(u) \in DOMAIN store' =>
            store'[count_key(u)].ttl = NoExpiry
       /\ (TimePasses \/ EntryGoes) => CallCounter(u)' = CallCounter(u)]_vars

\* A caller's miss stored an entry that has expired since; the counter of
\* the url still shows both calls made for it.
C12_Witness ==
  \E p \in Callers :
    /\ pc[p] = "returned" /\ nfetch[p] = 1
    /\ cache_key(url[p]) \notin DOMAIN store /\ age[url[p]] = expiration
    /\ CallCounter(url[p]) = 2

\* C13: under Spec, with concurrent callers, a call is past its INCR before
\* it reads the cache, invokes func or writes the entry, so func has been
\* invoked for a url at most as often as count:<url> says, and no call is
\* at or past the invocation of func while count:<url> is absent.
C13_FetchesAtMostCounter ==
  /\ \A u \in Urls : fetchCount[u] <= CallCounter(u)
  /\ \A p \in Callers :
       /\ pc[p] \in {"get", "fetch", "setex"} =>
            /\ count_key(url[p]) \in DOMAIN store
            /\ CallCounter(url[p]) >= 1 /\ nwrite[p] = 1
       /\ nfetch[p] = 1 => CallCounter(url[p]) >= 1
       /\ pc[p] = "incr" => nfetch[p] = 0 /\ nwrite[p] = 0

\* Two callers are both between func and SETEX for one url: two
\* invocations, counter 2.
C13_Witness ==
  \E u \in Urls :
    /\ fetchCount[u] = 2 /\ CallCounter(u) = 2
    /\ \A p \in {1, 2} : pc[p] = "setex" /\ url[p] = u

\* C14: under Spec, a call goes on to invoke func exactly when its GET of
\* cache:<url> came back absent or empty; on any other value the call
\* returns the UTF-8 decoding of the stored bytes (the text whose encoding
\* they are) without invoking func.
AbsentOrEmpty(o) == o = None \/ o = Some(<<>>)

C14_Step(p) ==
  /\ (pc[p] = "get" /\ pc'[p] \notin {"get", "raised"}) =>
       LET v == RedisGet(store, cache_key(url[p]))
       IN  IF AbsentOrEmpty(v)
           THEN pc'[p] = "fetch" /\ ret'[p] = None /\ cached_result'[p] = v
           ELSE /\ pc'[p] = "returned" /\ nfetch'[p] = 0
                /\ ret'[p] = Some(Utf8Decode(Val(v)))
                /\ Utf8Encode(Val(ret'[p])) = Val(v)
  /\ nfetch'[p] = nfetch[p] + 1 =>
       pc[p] = "fetch" /\ AbsentOrEmpty(cached_result[p])

C14_State(p) ==
  /\ pc[p] \in {"fetch", "setex"} => AbsentOrEmpty(cached_result[p])
  /\ (pc[p] = "returned" /\ nfetch[p] = 0) =>
       ret[p] # None /\ Val(ret[p]) \in Texts \ {<<>>}

C15_State ==
  \A u \in Urls :
    /\ (cache_key(u) \in DOMAIN store) <=> (age[u] < expiration)
    /\ cache_key(u) \in DOMAIN store =>
         store[cache_key(u)].ttl = expiration - age[u]

C15_Step(p) ==
  (pc[p] = "get" /\ pc'[p] = "returned") =>
     store' = store /\ age' = age /\ age[url[p]] < expiration

C15_HitKeepsLifetime ==
  [][C15_State' /\ \A p \in Callers : C15_Step(p)]_vars

\* A hit has been served from an entry that is now in its last second.
C15_Witness ==
  \E p \in Callers :
    /\ pc[p] = "returned" /\ nfetch[p] = 0
    /\ cache_key(url[p]) \in DOMAIN store
    /\ store[cache_key(url[p])].ttl = 1 /\ age[url[p]] = expiration - 1

\* C16: under Spec, a step of a call for url u changes no key but cache:<u>
\* and count:<u> and reads the cache under cache:<u>: the entry and the
\* counter of every other url stay as they were; and no cache key is a
\* counter key, nor do two urls share a key.
C16_Keys ==
  \A u, v \in Urls :
    /\ cache_key(u) # count_key(v)
    /\ u # v => cache_key(u) # cache_key(v) /\ count_key(u) # count_key(v)

C16_Step(p) ==
  pc'[p] # pc[p] =>
    /\ Changed(store, store') \subseteq
         {cache_key(url'[p]), count_key(url'[p])}
    /\ \A v \in Urls \ {url'[p]} :
         /\ CacheEntry(v)' = CacheEntry(v)
         /\ CallCounter(v)' = CallCounter(v)
         /\ (count_key(v) \in DOMAIN store') <=> (count_key(v) \in DOMAIN store)
    /\ (pc[p] = "get" /\ pc'[p] = "fetch") =>
         cached_result'[p] = RedisGet(store, cache_key(url[p]))
    /\ (pc[p] = "get" /\ pc'[p] = "returned") =>
         ret'[p] = Some(Utf8Decode(store[cache_key(url[p])].val))

C16_OnlyOwnKeys ==
  [][C16_Keys /\ \A p \in Callers : C16_Step(p)]_vars

\* Both urls have been called once; each has its own entry and counter.
C16_Witness ==
  /\ CacheEntry("x") # None /\ Val(CacheEntry("x")).val = <<65>>
  /\ CacheEntry("y") # None /\ Val(CacheEntry("y")).val = <<195, 169>>
  /\ CallCounter("x") = 1 /\ CallCounter("y") = 1

\* C17: under Spec, for any interleaving, the value under cache:<url> only
\* ever comes from the SETEX of a call for that url, which writes the
\* encoding of the text func returned to that call; a call whose func raised
\* holds no result and has written no entry, and an entry is there only if
\* func has been invoked for its url.
C17_State ==
  /\ \A p \in Callers :
       /\ pc[p] = "setex" =>
            /\ nfetch[p] = 1 /\ response[p] # None
            /\ result[p] = Some(Val(response[p]).text)
       /\ pc[p] # "setex" => result[p] = None
       /\ FetchFailed(p) => nwrite[p] = 1
  /\ \A u \in Urls :
       cache_key(u) \in DOMAIN store =>
         /\ fetchCount[u] >= 1
         /\ Utf8Decode(store[cache_key(u)].val) \in Texts

Written(u) ==
  /\ cache_key(u) \in DOMAIN store'
  /\ \/ cache_key(u) \notin DOMAIN store
     \/ store'[cache_key(u)].val # store[cache_key(u)].val
     \/ store'[cache_key(u)].ttl > store[cache_key(u)].ttl

C17_Step ==
  /\ \A u \in Urls :
       Written(u) =>
         \E p \in Callers :
           /\ pc[p] = "setex" /\ pc'[p] = "returned" /\ url[p] = u
           /\ Utf8Decode(store'[cache_key(u)].val) = Val(response[p]).text
           /\ ret'[p] = Some(Val(response[p]).text)
  /\ \A p \in Callers : url'[p] # url[p] => pc'[p] = "incr"

C17_EntryIsFetchedValue ==
  [][C17_Step /\ C17_State']_vars

\* Caller 1 fetched and cached "A" for x while func raised in caller 2's
\* call for y: x holds "A", y holds nothing.
C17_Witness ==
  /\ pc[1] = "returned" /\ url[1] = "x" /\ ret[1] = Some(<<65>>)
  /\ FetchFailed(2) /\ url[2] = "y"
  /\ CacheEntry("x") = Some([val |-> <<65>>, ttl |-> expiration])
  /\ CacheEntry("y") = None

====
